---- MODULE Spec2Model ----
(***************************************************************************)
(* Model of pkg/api/store/workload/workload_store.go: the CustomizeStore   *)
(* that rewrites a workload document (selector, defaults, image pull       *)
(* secrets, port names and DNS names, scheduling state, rollout strategy)  *)
(* before it delegates Create / Update to the underlying store.            *)
(*                                                                         *)
(* Strings that the code inspects character by character (names, kinds,    *)
(* protocols, identifiers, DNS names) are sequences of one-character       *)
(* strings; strings the code only copies or compares whole are TLA+        *)
(* strings.                                                                *)
(***************************************************************************)
EXTENDS Integers, Sequences, FiniteSets, TLC

VARIABLES
    stored, \* names under which the underlying store holds a document
    call    \* the last call of the store (or pass) and everything it produced

vars == <<stored, call>>

---------------------------------------------------------------------------
(* Go string helpers                                                       *)

UpperToLower ==
    ("A" :> "a") @@ ("B" :> "b") @@ ("C" :> "c") @@ ("D" :> "d") @@
    ("E" :> "e") @@ ("F" :> "f") @@ ("G" :> "g") @@ ("H" :> "h") @@
    ("I" :> "i") @@ ("J" :> "j") @@ ("K" :> "k") @@ ("L" :> "l") @@
    ("M" :> "m") @@ ("N" :> "n") @@ ("O" :> "o") @@ ("P" :> "p") @@
    ("Q" :> "q") @@ ("R" :> "r") @@ ("S" :> "s") @@ ("T" :> "t") @@
    ("U" :> "u") @@ ("V" :> "v") @@ ("W" :> "w") @@ ("X" :> "x") @@
    ("Y" :> "y") @@ ("Z" :> "z")

ToLowerChar(c) ==
    IF c \in DOMAIN UpperToLower THEN UpperToLower[c] ELSE c

RECURSIVE ToLower(_)
\* strings.ToLower
ToLower(s) ==
    IF s = <<>> THEN <<>> ELSE <<ToLowerChar(Head(s))>> \o ToLower(Tail(s))

\* strings.EqualFold (ASCII)
EqualFold(a, b) ==
    ToLower(a) = ToLower(b)

\* strings.HasPrefix
HasPrefix(s, prefix) ==
    /\ Len(s) >= Len(prefix)
    /\ SubSeq(s, 1, Len(prefix)) = prefix

Digits == <<"0", "1", "2", "3", "4", "5", "6", "7", "8", "9">>

RECURSIVE Itoa(_)
\* strconv.Itoa of a non-negative number
Itoa(n) ==
    IF n < 10 THEN <<Digits[n + 1]>>
    ELSE Itoa(n \div 10) \o <<Digits[(n % 10) + 1]>>

RECURSIVE SplitFrom(_, _, _)
SplitFrom(s, sep, cur) ==
    IF s = <<>> THEN <<cur>>
    ELSE IF Head(s) = sep THEN <<cur>> \o SplitFrom(Tail(s), sep, <<>>)
    ELSE SplitFrom(Tail(s), sep, Append(cur, Head(s)))

\* strings.Split with a one-character separator
Split(s, sep) ==
    SplitFrom(s, sep, <<>>)

---------------------------------------------------------------------------
(* String literals of the code and of the inputs                           *)

NodePort == <<"N", "o", "d", "e", "P", "o", "r", "t">>
ClusterIP == <<"C", "l", "u", "s", "t", "e", "r", "I", "P">>
LoadBalancer == <<"L", "o", "a", "d", "B", "a", "l", "a", "n", "c", "e", "r">>
NoKind == <<>>

Job == <<"j", "o", "b">>
CronJob == <<"c", "r", "o", "n", "J", "o", "b">>
Deployment == <<"d", "e", "p", "l", "o", "y", "m", "e", "n", "t">>

\* SelectorLabel, a constant of the package declared outside this file
SelectorLabel == "workload.user.cattle.io/workloadselector"

---------------------------------------------------------------------------
(* Port Namer / Validator: setPorts, generateDNSName                       *)

\* The switch on port["kind"] that numerates the kind.
numKind(kind) ==
    CASE kind = NodePort -> 1
      [] kind = ClusterIP -> 2
      [] kind = LoadBalancer -> 3
      [] OTHER -> 0

\* derivedPortName with its parts separated by dashes
derivedPortNameSeparated(port) ==
    Itoa(port.containerPort) \o <<"-">> \o ToLower(port.protocol)
        \o <<"-">> \o ToLower(port.sourcePort) \o <<"-">>
        \o ToLower(Itoa(numKind(port.kind)))

\* The name built for a port whose name is empty:
\* containerPort, protocol, sourcePort, numerated kind, without separators.
derivedPortName(port) ==
    Itoa(port.containerPort) \o ToLower(port.protocol)
        \o ToLower(port.sourcePort) \o ToLower(Itoa(numKind(port.kind)))

\* generateDNSName answering true for the names that do not match
generateDNSNameUnlessMatching(workloadName, dnsName) ==
    IF dnsName = <<>> THEN TRUE
    ELSE IF \/ EqualFold(dnsName, workloadName)
            \/ HasPrefix(dnsName, workloadName \o <<"-">>)
         THEN FALSE
         ELSE TRUE

generateDNSName(workloadName, dnsName) ==
    IF dnsName = <<>> THEN TRUE
    ELSE IF \/ EqualFold(dnsName, workloadName)
            \/ HasPrefix(dnsName, workloadName \o <<"-">>)
         THEN TRUE
         ELSE FALSE

\* The dnsName assignment of one port, after its name is settled.
setDNSName(workloadName, port) ==
    IF generateDNSName(workloadName, port.dnsName)
    THEN IF port.kind = ClusterIP
         THEN [port EXCEPT !.dnsName = ToLower(workloadName)]
         ELSE [port EXCEPT !.dnsName =
                   ToLower(workloadName) \o <<"-">> \o ToLower(port.kind)]
    ELSE port

\* The name a port resolves to: the one it carries, or the derived one.
resolvePortName(port) ==
    IF port.name = <<>> THEN derivedPortName(port) ELSE port.name

\* The duplicate test reading the value stored under a missing key
isDuplicateNever(portName, usedNames) ==
    portName \in (usedNames \ {portName})

\* The duplicate test of the port loop against the names used so far.
isDuplicate(portName, usedNames) ==
    portName \in usedNames

RECURSIVE portLoop(_, _, _, _)
\* The inner loop of setPorts over one container's ports. Ports are
\* rewritten in place, so the ports before a duplicate stay rewritten.
portLoop(workloadName, ports, i, usedNames) ==
    IF i > Len(ports) THEN [err |-> FALSE, ports |-> ports]
    ELSE LET portName == resolvePortName(ports[i])
         IN IF isDuplicate(portName, usedNames)
            THEN [err |-> TRUE, ports |-> ports]
            ELSE portLoop(workloadName,
                          [ports EXCEPT ![i] = setDNSName(workloadName,
                                                 [@ EXCEPT !.name = portName])],
                          i + 1, usedNames \cup {portName})

\* The names in use when the loop over a container's ports begins.
initialUsedNames(containers, i) ==
    {}

RECURSIVE containerLoop(_, _, _)
\* The outer loop of setPorts over the containers.
containerLoop(workloadName, containers, i) ==
    IF i > Len(containers) THEN [err |-> FALSE, containers |-> containers]
    ELSE LET r == portLoop(workloadName, containers[i].ports, 1,
                           initialUsedNames(containers, i))
             next == [containers EXCEPT ![i].ports = r.ports]
         IN IF r.err THEN [err |-> TRUE, containers |-> next]
            ELSE containerLoop(workloadName, next, i + 1)

setPorts(workloadName, data) ==
    LET r == containerLoop(workloadName, data.containers, 1)
    IN [err |-> r.err, data |-> [data EXCEPT !.containers = r.containers]]

---------------------------------------------------------------------------
(* Selector Assigner, Defaults Setter, Strategy Adjuster                   *)

isJob(schemaID) ==
    EqualFold(schemaID, Job) \/ EqualFold(schemaID, CronJob)

\* resolveWorkloadID is declared outside this file: the kind-specific
\* canonical identifier, built from the kind and the name.
resolveWorkloadID(schemaID, data) ==
    ToLower(schemaID) \o <<"-">> \o data.name

\* convert.IsEmpty of the selector: absent, or a map without entries.
selectorIsEmpty(selector) ==
    selector.tag \in {"absent", "empty"}

\* m[key] = value on a Go map
putLabel(m, key, value) ==
    [k \in DOMAIN m \cup {key} |-> IF k = key THEN value ELSE m[k]]

\* setSelector that sets the selector and forgets the labels
setSelectorOnly(schemaID, data) ==
    IF selectorIsEmpty(data.selector) /\ ~isJob(schemaID)
    THEN [data EXCEPT
             !.selector = [tag |-> "set",
                           matchLabels |->
                               (SelectorLabel :>
                                    resolveWorkloadID(schemaID, data))]]
    ELSE data

setSelector(schemaID, data) ==
    IF selectorIsEmpty(data.selector) /\ ~isJob(schemaID)
    THEN LET workloadID == resolveWorkloadID(schemaID, data)
         IN [data EXCEPT
                !.selector = [tag |-> "set",
                              matchLabels |-> (SelectorLabel :> workloadID)],
                !.workloadLabels = putLabel(@, SelectorLabel, workloadID),
                !.labels = putLabel(@, SelectorLabel, workloadID)]
    ELSE data

setWorkloadSpecificDefaults(schemaID, data) ==
    IF isJob(schemaID) /\ data.restartPolicy = ""
    THEN [data EXCEPT !.restartPolicy = "OnFailure"]
    ELSE data

setStrategy(data) ==
    IF data.deploymentConfig.strategy = "Recreate"
    THEN [data EXCEPT !.deploymentConfig.maxSurge = "",
                      !.deploymentConfig.maxUnavailable = ""]
    ELSE data

---------------------------------------------------------------------------
(* Credential Resolver: setSecrets, getCreds, getDomain                    *)

\* reference.ParseNormalizedNamed and reference.Domain of the image
\* references used as inputs: an image without a registry is normalized
\* to docker.io, an image with upper-case letters in its path is refused.
ParsedImage ==
    ("nginx" :> [err |-> FALSE, domain |-> "docker.io"]) @@
    ("myregistry.example.com/app:v1" :>
        [err |-> FALSE, domain |-> "myregistry.example.com"]) @@
    ("quay.io/team/tool" :> [err |-> FALSE, domain |-> "quay.io"]) @@
    ("" :> [err |-> TRUE, domain |-> ""]) @@
    ("Bad/Image" :> [err |-> TRUE, domain |-> ""])

getDomain(image) ==
    LET named == ParsedImage[image]
    IN IF named.err THEN ""
       ELSE IF named.domain = "docker.io" THEN "index.docker.io"
       ELSE named.domain

\* store is declared outside this file: it appends the credential's
\* secret reference under each registry domain the credential declares.
store(registries, domainToCreds, name) ==
    [d \in DOMAIN domainToCreds \cup registries |->
        IF d \in registries
        THEN IF d \in DOMAIN domainToCreds
             THEN Append(domainToCreds[d], name)
             ELSE <<name>>
        ELSE domainToCreds[d]]

RECURSIVE storeNamespaced(_, _, _, _)
\* The loop over the namespaced credentials, filtered by namespace.
storeNamespaced(creds, i, namespaceID, domainToCreds) ==
    IF i > Len(creds) THEN domainToCreds
    ELSE storeNamespaced(creds, i + 1, namespaceID,
             IF creds[i].namespaceId = namespaceID
             THEN store(creds[i].registries, domainToCreds, creds[i].name)
             ELSE domainToCreds)

RECURSIVE storeAll(_, _, _)
\* The loop over the cluster-scoped credentials.
storeAll(creds, i, domainToCreds) ==
    IF i > Len(creds) THEN domainToCreds
    ELSE storeAll(creds, i + 1,
             store(creds[i].registries, domainToCreds, creds[i].name))

\* apiContext carries the results of this call's lookups:
\* namespaced and cluster credential lists (each may fail) and the node.
getCreds(apiContext, namespaceID) ==
    LET afterNamespaced ==
            IF ~apiContext.namespacedCreds.err
            THEN storeNamespaced(apiContext.namespacedCreds.items, 1,
                                 namespaceID, <<>>)
            ELSE <<>>
    IN IF ~apiContext.creds.err
       THEN storeAll(apiContext.creds.items, 1, afterNamespaced)
       ELSE afterNamespaced

RECURSIVE collectSecretsOnce(_, _, _, _)
\* collectSecrets that skips a domain already collected
collectSecretsOnce(containers, i, domainToCreds, imagePullSecrets) ==
    IF i > Len(containers) THEN imagePullSecrets
    ELSE LET image == containers[i].image
             domain == getDomain(image)
             seen == \E j \in 1..(i - 1) :
                         getDomain(containers[j].image) = domain
         IN collectSecretsOnce(containers, i + 1, domainToCreds,
                IF image # "" /\ domain \in DOMAIN domainToCreds /\ ~seen
                THEN imagePullSecrets \o domainToCreds[domain]
                ELSE imagePullSecrets)

RECURSIVE collectSecrets(_, _, _, _)
\* The loop of setSecrets over the containers.
collectSecrets(containers, i, domainToCreds, imagePullSecrets) ==
    IF i > Len(containers) THEN imagePullSecrets
    ELSE LET image == containers[i].image
             domain == getDomain(image)
         IN collectSecrets(containers, i + 1, domainToCreds,
                IF image # "" /\ domain \in DOMAIN domainToCreds
                THEN imagePullSecrets \o domainToCreds[domain]
                ELSE imagePullSecrets)

setSecrets(apiContext, data) ==
    IF data.imagePullSecrets.set THEN data
    ELSE IF Len(data.containers) > 0
    THEN LET domainToCreds == getCreds(apiContext, data.namespaceId)
             imagePullSecrets ==
                 collectSecrets(data.containers, 1, domainToCreds, <<>>)
         IN IF imagePullSecrets # <<>>
            THEN [data EXCEPT !.imagePullSecrets =
                      [set |-> TRUE, refs |-> imagePullSecrets]]
            ELSE data
    ELSE data

---------------------------------------------------------------------------
(* Scheduling State Codec: setScheduling, getNodeName, getState, setState  *)

getNodeName(apiContext, nodeID) ==
    IF ~apiContext.node.err THEN apiContext.node.nodeName ELSE ""

\* getKey is declared outside this file: the state key derived from a
\* node name.
getKey(nodeName) ==
    <<"node", nodeName>>

\* json.Unmarshal of the state annotation into a map: the members of a
\* well-formed JSON object, nothing for an absent or malformed text.
getState(data) ==
    LET anno == data.stateAnnotation
    IN IF anno.tag = "json"
       THEN [k \in {m[1] : m \in anno.members} |->
                CHOOSE v \in {m[2] : m \in anno.members} :
                    <<k, v>> \in anno.members]
       ELSE <<>>

\* json.Marshal of the state map, written to the annotation.
setState(data, stateMap) ==
    [data EXCEPT !.stateAnnotation =
        [tag |-> "json",
         members |-> {<<k, stateMap[k]>> : k \in DOMAIN stateMap}]]

\* setScheduling that rewrites nothing when the lookup gave no name
setSchedulingKeepOnError(apiContext, data) ==
    LET nodeID == data.schedulingNodeId
    IN IF nodeID # ""
       THEN LET nodeName == getNodeName(apiContext, nodeID)
                rewritten == [data EXCEPT !.schedulingNodeId = nodeName]
                state == getState(rewritten)
            IN IF nodeName = "" THEN data
               ELSE setState(rewritten,
                             putLabel(state, getKey(nodeName), nodeID))
       ELSE [data EXCEPT !.nodeId = ""]

setScheduling(apiContext, data) ==
    LET nodeID == data.schedulingNodeId
    IN IF nodeID # ""
       THEN LET nodeName == getNodeName(apiContext, nodeID)
                rewritten == [data EXCEPT !.schedulingNodeId = nodeName]
                state == getState(rewritten)
            IN setState(rewritten, putLabel(state, getKey(nodeName), nodeID))
       ELSE [data EXCEPT !.nodeId = ""]

---------------------------------------------------------------------------
(* Pipeline Orchestrator: CustomizeStore.Create and CustomizeStore.Update  *)

\* The passes Create calls before it delegates, in call order.
CreatePasses ==
    <<"setSelector", "setWorkloadSpecificDefaults", "setSecrets",
      "setPorts", "setScheduling", "setStrategy">>

\* Update calling every pass Create calls
UpdatePassesAsCreate ==
    <<"setSelector", "setWorkloadSpecificDefaults", "setSecrets",
      "setPorts", "setScheduling", "setStrategy">>

\* The passes Update calls before it delegates, in call order.
UpdatePasses ==
    <<"setPorts", "setScheduling", "setStrategy">>

\* The workload name Create hands to setPorts.
createWorkloadName(data) ==
    data.name

\* The workload name Update hands to setPorts.
updateWorkloadName(splitted) ==
    splitted[2]

\* One pass applied to the document; only setPorts can return an error.
runPass(pass, apiContext, schemaID, workloadName, data) ==
    CASE pass = "setSelector" ->
            [err |-> FALSE, data |-> setSelector(schemaID, data)]
      [] pass = "setWorkloadSpecificDefaults" ->
            [err |-> FALSE, data |-> setWorkloadSpecificDefaults(schemaID, data)]
      [] pass = "setSecrets" ->
            [err |-> FALSE, data |-> setSecrets(apiContext, data)]
      [] pass = "setPorts" -> setPorts(workloadName, data)
      [] pass = "setScheduling" ->
            [err |-> FALSE, data |-> setScheduling(apiContext, data)]
      [] pass = "setStrategy" ->
            [err |-> FALSE, data |-> setStrategy(data)]

RECURSIVE runPasses(_, _, _, _, _, _)
\* The statements of a handler in order: each pass works on the document
\* the previous one left, and an error returns at once.
runPasses(passes, i, apiContext, schemaID, workloadName, st) ==
    IF i > Len(passes) THEN st
    ELSE LET r == runPass(passes[i], apiContext, schemaID, workloadName,
                          st.data)
             next == [err |-> r.err, data |-> r.data,
                      ran |-> Append(st.ran, passes[i])]
         IN IF r.err THEN next
            ELSE runPasses(passes, i + 1, apiContext, schemaID,
                           workloadName, next)

\* What the underlying store answers: its error, or the document.
storeOutcome(storeErr) ==
    IF storeErr THEN "storeError" ELSE "ok"

\* The record of a call: its arguments, the document as the passes left
\* it, the passes that ran, the calls made to the underlying store and
\* how the call ended.
callRecord(op, args, workloadName, st, storeCalls, outcome) ==
    [op |-> op, schemaID |-> args.schemaID, id |-> args.id,
     workloadName |-> workloadName, apiContext |-> args.apiContext,
     in |-> args.data, data |-> st.data, ran |-> st.ran,
     storeCalls |-> storeCalls, outcome |-> outcome]

\* CustomizeStore.Create, with the answer of the underlying store.
Create(apiContext, schemaID, data, storeErr) ==
    LET args == [schemaID |-> schemaID, id |-> <<>>,
                 apiContext |-> apiContext, data |-> data]
        workloadName == createWorkloadName(data)
        st == runPasses(CreatePasses, 1, apiContext, schemaID, workloadName,
                        [err |-> FALSE, data |-> data, ran |-> <<>>])
    IN IF st.err
       THEN callRecord("Create", args, workloadName, st, 0, "InvalidOption")
       ELSE callRecord("Create", args, workloadName, st, 1,
                       storeOutcome(storeErr))

\* CustomizeStore.Update, with the answer of the underlying store.
\* splitted[1] of an identifier without a colon is out of range: the
\* call panics before any pass.
Update(apiContext, schemaID, data, id, storeErr) ==
    LET args == [schemaID |-> schemaID, id |-> id,
                 apiContext |-> apiContext, data |-> data]
        splitted == Split(id, ":")
        none == [err |-> FALSE, data |-> data, ran |-> <<>>]
    IN IF Len(splitted) < 2
       THEN callRecord("Update", args, <<>>, none, 0, "panic")
       ELSE LET workloadName == updateWorkloadName(splitted)
                st == runPasses(UpdatePasses, 1, apiContext, schemaID,
                                workloadName, none)
            IN IF st.err
               THEN callRecord("Update", args, workloadName, st, 0,
                               "InvalidOption")
               ELSE callRecord("Update", args, workloadName, st, 1,
                               storeOutcome(storeErr))

\* The underlying store after the call: it holds a document under the
\* workload's name once a delegated call succeeded.
storedAfter(c) ==
    IF c.storeCalls = 1 /\ c.outcome = "ok"
    THEN stored \cup {c.workloadName}
    ELSE stored

---------------------------------------------------------------------------
(* Inputs                                                                  *)

MaxContainers == 2

web == <<"w", "e", "b">>
Web == <<"W", "e", "b">>
TCP == <<"T", "C", "P">>
UDP == <<"U", "D", "P">>
SCTP == <<"S", "C", "T", "P">>
custom == <<"c", "u", "s", "t", "o", "m">>
http == <<"h", "t", "t", "p">>

NoSelector == [tag |-> "absent", matchLabels |-> <<>>]
EmptySelector == [tag |-> "empty", matchLabels |-> <<>>]
UserSelector == [tag |-> "set", matchLabels |-> ("app" :> custom)]
NoState == [tag |-> "absent", members |-> {}]
NoSecrets == [set |-> FALSE, refs |-> <<>>]

BasePort ==
    [name |-> <<>>, containerPort |-> 80, protocol |-> TCP,
     sourcePort |-> <<>>, kind |-> NodePort, dnsName |-> <<>>]

BaseDoc ==
    [name |-> web, namespaceId |-> "ns1", selector |-> NoSelector,
     labels |-> <<>>, workloadLabels |-> <<>>, restartPolicy |-> "",
     imagePullSecrets |-> NoSecrets, containers |-> <<>>,
     schedulingNodeId |-> "", nodeId |-> "(absent)",
     stateAnnotation |-> NoState,
     deploymentConfig |->
         [strategy |-> "", maxSurge |-> "", maxUnavailable |-> ""]]

\* All sequences over S of length at most n
RECURSIVE SeqsUpTo(_, _)
SeqsUpTo(S, n) ==
    IF n = 0 THEN {<<>>}
    ELSE LET shorter == SeqsUpTo(S, n - 1)
         IN shorter \cup {Append(q, x) : q \in shorter, x \in S}

\* Lookups that answer, and lookups that all fail.
CtxUp ==
    [namespacedCreds |->
        [err |-> FALSE,
         items |-> <<[name |-> "ns1-cred", namespaceId |-> "ns1",
                      registries |-> {"myregistry.example.com"}],
                     [name |-> "ns2-cred", namespaceId |-> "ns2",
                      registries |-> {"index.docker.io"}]>>],
     creds |->
        [err |-> FALSE,
         items |-> <<[name |-> "hub-cred",
                      registries |-> {"index.docker.io"}]>>],
     node |-> [err |-> FALSE, nodeName |-> "node-1"]]

CtxDown ==
    [namespacedCreds |-> [err |-> TRUE, items |-> <<>>],
     creds |-> [err |-> TRUE, items |-> <<>>],
     node |-> [err |-> TRUE, nodeName |-> ""]]

\* Ports of the documents sent to Create and Update: a port to be named
\* ("80tcp1"), a port that carries that very name, a named ClusterIP port.
PortA == BasePort
PortB == [BasePort EXCEPT !.name = Itoa(80) \o ToLower(TCP) \o Itoa(1),
                          !.kind = ClusterIP, !.dnsName = custom]
PortC == [BasePort EXCEPT !.name = http, !.containerPort = 8080,
                          !.kind = ClusterIP]

CallContainers ==
    {[image |-> "nginx", ports |-> <<PortA>>],
     [image |-> "myregistry.example.com/app:v1", ports |-> <<PortA, PortA>>],
     [image |-> "nginx", ports |-> <<PortB, PortA>>],
     [image |-> "Bad/Image", ports |-> <<PortC, PortA>>]}

\* Documents that differ in their containers and ports.
PortDocs ==
    {[BaseDoc EXCEPT !.containers = cs] :
        cs \in SeqsUpTo(CallContainers, MaxContainers)}

\* Documents that differ in selector, labels and name.
SelectorDocs ==
    {[BaseDoc EXCEPT !.containers = <<[image |-> "nginx",
                                       ports |-> <<PortC>>]>>,
                     !.selector = sel, !.labels = lab, !.name = n] :
        sel \in {NoSelector, EmptySelector, UserSelector},
        lab \in {<<>>, ("app" :> custom)},
        n \in {web, <<>>}}

\* Documents that differ in restart policy, pinned node and strategy.
OtherDocs ==
    {[BaseDoc EXCEPT !.restartPolicy = "Always"],
     [BaseDoc EXCEPT !.schedulingNodeId = "machine-1"],
     [BaseDoc EXCEPT !.schedulingNodeId = "machine-1",
                     !.stateAnnotation =
                         [tag |-> "malformed", members |-> {}]],
     [BaseDoc EXCEPT !.deploymentConfig =
         [strategy |-> "Recreate", maxSurge |-> "1", maxUnavailable |-> "1"]],
     [BaseDoc EXCEPT !.deploymentConfig =
         [strategy |-> "RollingUpdate", maxSurge |-> "1",
          maxUnavailable |-> "1"]]}

SchemaIDs == {Deployment, Job, ToLower(CronJob)}

CreateInputs ==
    (PortDocs \X {Deployment} \X {CtxUp})
        \cup (SelectorDocs \X SchemaIDs \X {CtxUp})
        \cup (OtherDocs \X {Deployment, Job} \X {CtxUp, CtxDown})

\* A type:name identifier, and one without a colon
UpdateIDs ==
    {Deployment \o <<":">> \o web, web}

UpdateInputs ==
    (PortDocs \X UpdateIDs \X {CtxUp})
        \cup (SelectorDocs \X {Deployment \o <<":">> \o web,
                               Deployment \o <<":">>} \X {CtxUp})
        \cup (OtherDocs \X {Deployment \o <<":">> \o web}
                  \X {CtxUp, CtxDown})

---------------------------------------------------------------------------
(* The store under calls of Create and Update                              *)

NoCall ==
    [op |-> "none", schemaID |-> <<>>, id |-> <<>>, workloadName |-> <<>>,
     apiContext |-> CtxDown, in |-> BaseDoc, data |-> BaseDoc, ran |-> <<>>,
     storeCalls |-> 0, outcome |-> "none"]

Init ==
    /\ stored = {}
    /\ call = NoCall

CreateCall ==
    \E input \in CreateInputs, storeErr \in BOOLEAN :
        /\ call' = Create(input[3], input[2], input[1], storeErr)
        /\ stored' = storedAfter(call')

UpdateCall ==
    \E input \in UpdateInputs, storeErr \in BOOLEAN :
        /\ call' = Update(input[3], Deployment, input[1], input[2], storeErr)
        /\ stored' = storedAfter(call')

Next ==
    \/ CreateCall
    \/ UpdateCall

Spec == Init /\ [][Next]_vars

---------------------------------------------------------------------------
(* A workload that is created and then updated with the returned document, *)
(* the kind of its port changed or not                                     *)

Kinds == {NodePort, ClusterIP, LoadBalancer, NoKind}

KindDocs ==
    {[BaseDoc EXCEPT !.name = n,
                     !.containers =
                         <<[image |-> "nginx",
                            ports |-> <<[BasePort EXCEPT !.kind = k,
                                                         !.dnsName = dn]>>]>>] :
        n \in {web, Web}, k \in Kinds, dn \in {<<>>, custom}}

CreateWorkload ==
    \E data \in KindDocs, storeErr \in BOOLEAN :
        /\ call' = Create(CtxUp, Deployment, data, storeErr)
        /\ stored' = storedAfter(call')

UpdateReturned ==
    /\ call.outcome = "ok"
    /\ \E k \in Kinds, storeErr \in BOOLEAN :
           /\ call' = Update(CtxUp, Deployment,
                             [call.data EXCEPT
                                 !.containers[1].ports[1].kind = k],
                             Deployment \o <<":">> \o call.workloadName,
                             storeErr)
           /\ stored' = storedAfter(call')

NextKind ==
    \/ CreateWorkload
    \/ UpdateReturned

SpecKind == Init /\ [][NextKind]_vars

---------------------------------------------------------------------------
(* The passes applied to one document each                                 *)

PortNumbers == {0, 9, 10, 99, 100, 999, 1000, 9999, 10000, 65535}

Protocols == {TCP, UDP, SCTP, ToLower(TCP)}

\* Source ports as the document carries them: unset, the decimal text of
\* a port number, or the text of a larger number.
SourcePorts ==
    {<<>>} \cup {Itoa(m) : m \in PortNumbers \cup {100000, 1000000}}

\* Ports without a name, over the digit counts of both port numbers.
UnnamedPorts ==
    {[BasePort EXCEPT !.containerPort = n, !.protocol = pr,
                      !.sourcePort = sp, !.kind = k] :
        n \in PortNumbers, pr \in Protocols, sp \in SourcePorts, k \in Kinds}

WorkloadNames == {web, Web, <<>>}

\* DNS names: none, chosen by the user, or as generated for some name
\* and kind.
DNSNames ==
    {<<>>, custom, web, Web, web \o <<"x">>}
        \cup {ToLower(n) \o <<"-">> \o ToLower(k) :
                 n \in WorkloadNames, k \in Kinds}
        \cup {Web \o <<"-">> \o ToLower(k) : k \in {NodePort}}

DNSPorts ==
    {[BasePort EXCEPT !.name = nm, !.kind = k, !.dnsName = dn] :
        nm \in {<<>>, http}, k \in Kinds, dn \in DNSNames}

onePort(port) ==
    [BaseDoc EXCEPT !.containers = <<[image |-> "nginx",
                                      ports |-> <<port>>]>>]

pendingPass(pass, workloadName, apiContext, data) ==
    [op |-> pass, schemaID |-> <<>>, id |-> <<>>,
     workloadName |-> workloadName, apiContext |-> apiContext, in |-> data,
     data |-> data, ran |-> <<>>, storeCalls |-> 0, outcome |-> "pending"]

PendingSetPorts ==
    {pendingPass("setPorts", web, CtxDown, onePort(p)) : p \in UnnamedPorts}
        \cup {pendingPass("setPorts", n, CtxDown, onePort(p)) :
                  n \in WorkloadNames, p \in DNSPorts}

Images ==
    {"", "nginx", "myregistry.example.com/app:v1", "quay.io/team/tool",
     "Bad/Image"}

NamespacedLists ==
    {[err |-> TRUE, items |-> <<>>],
     [err |-> FALSE,
      items |-> <<[name |-> "ns1-cred", namespaceId |-> "ns1",
                   registries |-> {"myregistry.example.com",
                                   "index.docker.io"}],
                  [name |-> "ns2-cred", namespaceId |-> "ns2",
                   registries |-> {"index.docker.io"}]>>]}

ClusterLists ==
    {[err |-> TRUE, items |-> <<>>],
     [err |-> FALSE, items |-> <<>>],
     [err |-> FALSE,
      items |-> <<[name |-> "hub-cred", registries |-> {"index.docker.io"}],
                  [name |-> "all-cred",
                   registries |-> {"index.docker.io",
                                   "myregistry.example.com"}]>>]}

CredContexts ==
    {[namespacedCreds |-> ns, creds |-> cl, node |-> CtxDown.node] :
        ns \in NamespacedLists, cl \in ClusterLists}

SecretDocs ==
    {[BaseDoc EXCEPT !.namespaceId = ns, !.imagePullSecrets = ips,
                     !.containers = cs] :
        ns \in {"ns1", "ns2"},
        ips \in {NoSecrets, [set |-> TRUE, refs |-> <<>>],
                 [set |-> TRUE, refs |-> <<"preset">>]},
        cs \in SeqsUpTo({[image |-> im, ports |-> <<>>] : im \in Images},
                        MaxContainers)}

PendingSetSecrets ==
    {pendingPass("setSecrets", d.name, ctx, d) :
        d \in SecretDocs, ctx \in CredContexts}

InitPass ==
    /\ stored = {}
    /\ call \in PendingSetPorts \cup PendingSetSecrets

ApplySetPorts ==
    /\ call.op = "setPorts"
    /\ call.outcome = "pending"
    /\ LET r == setPorts(call.workloadName, call.in)
       IN call' = [call EXCEPT !.data = r.data, !.ran = <<"setPorts">>,
                               !.outcome = IF r.err THEN "InvalidOption"
                                           ELSE "ok"]
    /\ UNCHANGED stored

ApplySetSecrets ==
    /\ call.op = "setSecrets"
    /\ call.outcome = "pending"
    /\ call' = [call EXCEPT !.data = setSecrets(call.apiContext, call.in),
                            !.ran = <<"setSecrets">>, !.outcome = "ok"]
    /\ UNCHANGED stored

NextPass ==
    \/ ApplySetPorts
    \/ ApplySetSecrets

PassSpec == InitPass /\ [][NextPass]_vars

---------------------------------------------------------------------------
(* Properties of Create and Update                                         *)

\* The <<container, port>> index pairs of a document
PortIndices(data) ==
    UNION {{<<c, p>> : p \in 1..Len(data.containers[c].ports)} :
              c \in 1..Len(data.containers)}

PortAt(data, ix) ==
    data.containers[ix[1]].ports[ix[2]]

\* The name the claim says a port resolves to: user-set or derived.
ResolvedName(port) ==
    IF port.name # <<>> THEN port.name
    ELSE Itoa(port.containerPort) \o ToLower(port.protocol)
             \o ToLower(port.sourcePort)
             \o (CASE port.kind = NodePort -> <<"1">>
                   [] port.kind = ClusterIP -> <<"2">>
                   [] port.kind = LoadBalancer -> <<"3">>
                   [] OTHER -> <<"0">>)

\* Two ports of one container resolve to the same name.
HasContainerDuplicate(data) ==
    \E ix \in PortIndices(data), jx \in PortIndices(data) :
        /\ ix[1] = jx[1]
        /\ ix[2] < jx[2]
        /\ ResolvedName(PortAt(data, ix)) = ResolvedName(PortAt(data, jx))

IsHandlerCall ==
    call.op \in {"Create", "Update"}

\* C1: for every document in which two ports of one container resolve to
\* the same name, Create and Update return the InvalidOption error and the
\* underlying store is not called.
C1_DuplicateRejected ==
    (IsHandlerCall /\ HasContainerDuplicate(call.in))
        => (call.outcome = "InvalidOption" /\ call.storeCalls = 0)

\* C7: a Create or Update call ends either with the duplicate-port
\* InvalidOption error and no storage call, or with exactly one storage
\* call whose answer it returns; nothing else ends a call.
C7_OnlyTwoEndings ==
    IsHandlerCall
        => \/ call.outcome = "InvalidOption" /\ call.storeCalls = 0
           \/ call.outcome \in {"ok", "storeError"} /\ call.storeCalls = 1


\* The six passes in the order the overview gives them
SixPasses ==
    <<"setSelector", "setWorkloadSpecificDefaults", "setSecrets",
      "setPorts", "setScheduling", "setStrategy">>

\* The document six passes leave, each applied to the result of the one
\* before
AfterSixPasses(apiContext, schemaID, workloadName, data) ==
    setStrategy(setScheduling(apiContext,
        setPorts(workloadName,
            setSecrets(apiContext,
                setWorkloadSpecificDefaults(schemaID,
                    setSelector(schemaID, data)))).data))

\* The document the three passes of Update leave
AfterThreePasses(apiContext, workloadName, data) ==
    setStrategy(setScheduling(apiContext, setPorts(workloadName, data).data))

\* C2 as stated: Create and Update both run the six passes in order, and
\* only then delegate to the underlying store.
C2_BothRunSixPasses ==
    (IsHandlerCall /\ call.storeCalls = 1)
        => /\ call.ran = SixPasses
           /\ call.data = AfterSixPasses(call.apiContext, call.schemaID,
                                         call.workloadName, call.in)

\* C2 amended: Create runs the six passes in order and Update runs only
\* the Port Namer/Validator, the Scheduling State Codec and the Strategy
\* Adjuster, in that order; each delegates to the underlying store only
\* after its passes.
C2_PassesBeforeStore ==
    /\ (call.op = "Create" /\ call.storeCalls = 1)
           => /\ call.ran = SixPasses
              /\ call.data = AfterSixPasses(call.apiContext, call.schemaID,
                                            call.workloadName, call.in)
    /\ (call.op = "Update" /\ call.storeCalls = 1)
           => /\ call.ran = SubSeq(SixPasses, 4, 6)
              /\ call.data = AfterThreePasses(call.apiContext,
                                              call.workloadName, call.in)
    /\ (IsHandlerCall /\ call.storeCalls = 0)
           => \/ call.ran = <<>>
              \/ call.ran[Len(call.ran)] = "setPorts"

\* An Update reached the store with a document the skipped passes would
\* have changed, and a Create reached the store too.
C2_Witness ==
    /\ call.op = "Update"
    /\ call.storeCalls = 1
    /\ call.data # AfterSixPasses(call.apiContext, call.schemaID,
                                  call.workloadName, call.in)
    /\ stored # {}

\* The call returned without a validation error.
ReturnedValid ==
    IsHandlerCall /\ call.outcome \in {"ok", "storeError"}

\* C4 as stated: after a Create or Update that returns without a
\* validation error, no two ports of the document carry the same name.
C4_UniqueInDocument ==
    ReturnedValid
        => \A ix \in PortIndices(call.data), jx \in PortIndices(call.data) :
               ix # jx => PortAt(call.data, ix).name # PortAt(call.data, jx).name

\* C4 amended: after a Create or Update that returns without a validation
\* error, no two ports of the same container carry the same name; ports
\* of different containers may.
C4_UniqueInContainer ==
    ReturnedValid
        => \A ix \in PortIndices(call.data), jx \in PortIndices(call.data) :
               (ix # jx /\ ix[1] = jx[1])
                   => PortAt(call.data, ix).name # PortAt(call.data, jx).name

\* A call returned a document with two containers, one of them with two
\* ports, and a name shared across the containers.
C4_Witness ==
    /\ ReturnedValid
    /\ Len(call.data.containers) = 2
    /\ \E c \in 1..2 : Len(call.data.containers[c].ports) = 2
    /\ \E ix \in PortIndices(call.data), jx \in PortIndices(call.data) :
           /\ ix[1] # jx[1]
           /\ PortAt(call.data, ix).name = PortAt(call.data, jx).name

\* The Scheduling State Codec ran on a pinned node whose lookup failed.
LookupFailedOnPin ==
    /\ IsHandlerCall
    /\ call.in.schedulingNodeId # ""
    /\ call.apiContext.node.err
    /\ \E i \in 1..Len(call.ran) : call.ran[i] = "setScheduling"

\* C6 as stated: when the node lookup fails, scheduling.node.nodeId keeps
\* the caller-supplied value and the call is not aborted.
C6_NodeIdKept ==
    LookupFailedOnPin
        => /\ call.data.schedulingNodeId = call.in.schedulingNodeId
           /\ call.storeCalls = 1

\* C6 amended: when the node lookup fails, the result is treated as an
\* empty name and scheduling.node.nodeId is rewritten to the empty string,
\* the caller-supplied value being kept only in the state annotation; the
\* call is not aborted.
C6_NodeIdEmptied ==
    LookupFailedOnPin
        => /\ call.data.schedulingNodeId = ""
           /\ call.data.stateAnnotation.tag = "json"
           /\ \E m \in call.data.stateAnnotation.members :
                  m[2] = call.in.schedulingNodeId
           /\ call.storeCalls = 1

C6_Witness ==
    /\ LookupFailedOnPin
    /\ call.outcome = "ok"
    /\ call.op = "Update"


\* The selector label is set to the same value in the selector, the
\* labels and the workload labels.
SelectorLabelsAgree(data) ==
    /\ data.selector.tag = "set"
    /\ SelectorLabel \in DOMAIN data.selector.matchLabels
    /\ SelectorLabel \in DOMAIN data.labels
    /\ SelectorLabel \in DOMAIN data.workloadLabels
    /\ data.selector.matchLabels[SelectorLabel] = data.labels[SelectorLabel]
    /\ data.labels[SelectorLabel] = data.workloadLabels[SelectorLabel]

JobLike(schemaID) ==
    ToLower(schemaID) \in {ToLower(Job), ToLower(CronJob)}

\* C8 as stated: after the pipeline runs successfully (Create or Update,
\* any kind) the document has a non-empty selector unless the kind is job
\* or cronJob, the selector label is populated consistently in selector,
\* labels and workloadLabels, and every port has a non-empty name and a
\* non-empty dnsName.
C8_PopulatedAfterPipeline ==
    (IsHandlerCall /\ call.storeCalls = 1)
        => /\ ~JobLike(call.schemaID) => SelectorLabelsAgree(call.data)
           /\ SelectorLabel \in DOMAIN call.data.labels
           /\ SelectorLabel \in DOMAIN call.data.workloadLabels
           /\ \A ix \in PortIndices(call.data) :
                  /\ PortAt(call.data, ix).name # <<>>
                  /\ PortAt(call.data, ix).dnsName # <<>>

\* C8 amended: after Create runs successfully on a document whose kind is
\* not job or cronJob the document has a non-empty selector, and if the
\* submitted selector was empty the selector label holds the same
\* workloadId in selector.matchLabels, labels and workloadLabels; Update
\* leaves selector, labels and workloadLabels as submitted. After Create
\* or Update runs successfully every port has a non-empty name, and a
\* non-empty dnsName unless the workload name handed to the Port Namer is
\* empty and the port's kind is ClusterIP.
C8_PopulatedWhereAssigned ==
    /\ (call.op = "Create" /\ call.storeCalls = 1 /\ ~JobLike(call.schemaID))
           => /\ call.data.selector.tag = "set"
              /\ call.in.selector.tag \in {"absent", "empty"}
                     => SelectorLabelsAgree(call.data)
    /\ (call.op = "Update" /\ call.storeCalls = 1)
           => /\ call.data.selector = call.in.selector
              /\ call.data.labels = call.in.labels
              /\ call.data.workloadLabels = call.in.workloadLabels
    /\ (IsHandlerCall /\ call.storeCalls = 1)
           => \A ix \in PortIndices(call.data) :
                  /\ PortAt(call.data, ix).name # <<>>
                  /\ (call.workloadName # <<>>
                          \/ PortAt(call.data, ix).kind # ClusterIP)
                         => PortAt(call.data, ix).dnsName # <<>>

\* Create assigned the selector label next to a label the caller had set,
\* and named a port.
C8_Witness ==
    /\ call.op = "Create"
    /\ call.storeCalls = 1
    /\ call.in.selector.tag = "empty"
    /\ "app" \in DOMAIN call.data.labels
    /\ SelectorLabelsAgree(call.data)
    /\ PortIndices(call.data) # {}


---------------------------------------------------------------------------
(* Properties of the DNS name across Create and Update                     *)

\* The dnsName the claims give for a workload name and a kind
ExpectedDNSName(workloadName, kind) ==
    IF kind = ClusterIP THEN ToLower(workloadName)
    ELSE ToLower(workloadName) \o <<"-">> \o ToLower(kind)

\* C10: an Update addressed to workload N whose port still carries the
\* dnsName generated for an earlier kind K1, its kind now being K2 # K1,
\* leaves the port with the dnsName generated for K2; repeating the Update
\* with the kind unchanged leaves name and dnsName unchanged.
C10_RegeneratedOnKindChange ==
    (call.op = "Update" /\ call.storeCalls = 1)
        => LET before == PortAt(call.in, <<1, 1>>)
               after == PortAt(call.data, <<1, 1>>)
           IN /\ (\E k1 \in Kinds :
                      /\ k1 # before.kind
                      /\ before.dnsName = ExpectedDNSName(call.workloadName, k1))
                     => after.dnsName
                            = ExpectedDNSName(call.workloadName, before.kind)
              /\ before.dnsName
                     = ExpectedDNSName(call.workloadName, before.kind)
                     => (after.name = before.name
                            /\ after.dnsName = before.dnsName)

---------------------------------------------------------------------------
(* Properties of the passes                                                *)

IsPassResult(pass) ==
    call.op = pass /\ call.outcome # "pending"

\* C3 as stated: the dnsName is recomputed if and only if it is empty, or
\* it neither equals W case-insensitively nor begins with "W-"; recomputed
\* it is lower(W) for ClusterIP and lower(W)-lower(kind) otherwise, and in
\* every other case it is left unchanged.
C3_RegeneratedUnlessMatching ==
    IsPassResult("setPorts")
        => \A ix \in PortIndices(call.data) :
               LET before == PortAt(call.in, ix).dnsName
                   after == PortAt(call.data, ix)
                   W == call.workloadName
               IN IF \/ before = <<>>
                     \/ /\ ToLower(before) # ToLower(W)
                        /\ ~HasPrefix(before, W \o <<"-">>)
                  THEN after.dnsName = ExpectedDNSName(W, after.kind)
                  ELSE after.dnsName = before

\* C3 amended: the dnsName is recomputed if and only if it is empty, or it
\* equals W case-insensitively, or it begins with "W-"; recomputed it is
\* lower(W) for ClusterIP and lower(W)-lower(kind) otherwise, and in every
\* other case it is left unchanged.
C3_RegeneratedWhenMatching ==
    IsPassResult("setPorts")
        => \A ix \in PortIndices(call.data) :
               LET before == PortAt(call.in, ix).dnsName
                   after == PortAt(call.data, ix)
                   W == call.workloadName
               IN IF \/ before = <<>>
                     \/ ToLower(before) = ToLower(W)
                     \/ HasPrefix(before, W \o <<"-">>)
                  THEN after.dnsName = ExpectedDNSName(W, after.kind)
                  ELSE after.dnsName = before

\* A dnsName generated for NodePort was regenerated for another kind, for
\* workload "web".
C3_Witness ==
    /\ IsPassResult("setPorts")
    /\ call.workloadName = web
    /\ PortAt(call.in, <<1, 1>>).dnsName = ExpectedDNSName(web, NodePort)
    /\ PortAt(call.in, <<1, 1>>).kind = ClusterIP
    /\ PortAt(call.data, <<1, 1>>).dnsName = web

PortNameLimit == 15

RECURSIVE Atoi(_)
\* The number a text of decimal digits denotes
Atoi(s) ==
    IF s = <<>> THEN 0
    ELSE 10 * Atoi(SubSeq(s, 1, Len(s) - 1))
             + (CHOOSE d \in 0..9 : Digits[d + 1] = s[Len(s)])

\* The text is the decimal form of a port number 0..65535.
IsPortNumberText(s) ==
    /\ s # <<>>
    /\ \A i \in 1..Len(s) : \E d \in 1..10 : Digits[d] = s[i]
    /\ Atoi(s) \in 0..65535
    /\ Itoa(Atoi(s)) = s

\* The port is one the claim speaks of: no name, a containerPort in
\* 0..65535, a known protocol, a known kind or none.
UnnamedKnownPort(port) ==
    /\ port.name = <<>>
    /\ port.containerPort \in 0..65535
    /\ port.protocol \in Protocols
    /\ port.kind \in Kinds

\* C9 as stated: for a port with an empty name, a containerPort in
\* 0..65535, a known protocol and a kind among NodePort, ClusterIP,
\* LoadBalancer or unset, the derived name (containerPort, lower-cased
\* protocol, lower-cased sourcePort, one-digit kind code) is at most 15
\* characters long.
C9_DerivedNameWithinLimit ==
    IsPassResult("setPorts")
        => \A ix \in PortIndices(call.data) :
               UnnamedKnownPort(PortAt(call.in, ix))
                   => Len(PortAt(call.data, ix).name) <= PortNameLimit

\* C9 amended: for such a port whose sourcePort is unset or the decimal
\* text of a port number 0..65535, the derived name is containerPort,
\* lower-cased protocol, lower-cased sourcePort and one-digit kind code
\* without separators, and is at most 15 characters long.
C9_WithinLimitForPortNumbers ==
    IsPassResult("setPorts")
        => \A ix \in PortIndices(call.data) :
               LET before == PortAt(call.in, ix)
                   after == PortAt(call.data, ix)
               IN (/\ UnnamedKnownPort(before)
                   /\ before.sourcePort = <<>>
                          \/ IsPortNumberText(before.sourcePort))
                      => /\ after.name = ResolvedName(before)
                         /\ Len(after.name) <= PortNameLimit

\* A derived name of exactly 15 characters: two five-digit ports, SCTP.
C9_Witness ==
    /\ IsPassResult("setPorts")
    /\ UnnamedKnownPort(PortAt(call.in, <<1, 1>>))
    /\ PortAt(call.in, <<1, 1>>).containerPort = 65535
    /\ PortAt(call.in, <<1, 1>>).sourcePort = Itoa(65535)
    /\ PortAt(call.in, <<1, 1>>).protocol = SCTP
    /\ Len(PortAt(call.data, <<1, 1>>).name) = PortNameLimit

\* The registry domain of a parseable image, docker.io being registered
\* as index.docker.io
RegistryDomain(image) ==
    IF ParsedImage[image].domain = "docker.io" THEN "index.docker.io"
    ELSE ParsedImage[image].domain

NamesOf(creds) ==
    [i \in 1..Len(creds) |-> creds[i].name]

\* The secret references registered under a domain: by the namespaced
\* credentials of the namespace, then by the cluster-scoped credentials,
\* as far as the lookups answered.
RefsUnder(apiContext, namespaceID, domain) ==
    LET namespaced ==
            IF apiContext.namespacedCreds.err THEN <<>>
            ELSE SelectSeq(apiContext.namespacedCreds.items,
                           LAMBDA c : /\ c.namespaceId = namespaceID
                                      /\ domain \in c.registries)
        cluster ==
            IF apiContext.creds.err THEN <<>>
            ELSE SelectSeq(apiContext.creds.items,
                           LAMBDA c : domain \in c.registries)
    IN NamesOf(namespaced) \o NamesOf(cluster)

RECURSIVE ExpectedSecrets(_, _, _)
\* The in-order concatenation over the containers
ExpectedSecrets(apiContext, namespaceID, containers) ==
    IF containers = <<>> THEN <<>>
    ELSE LET image == Head(containers).image
             mine == IF image # "" /\ ~ParsedImage[image].err
                     THEN RefsUnder(apiContext, namespaceID,
                                    RegistryDomain(image))
                     ELSE <<>>
         IN mine \o ExpectedSecrets(apiContext, namespaceID, Tail(containers))

====
